---------------------------- MODULE Spec2Model ----------------------------
(* A model of entrypoint.py: the diff resolver get_diff, the chunker        *)
(* chunk_text and the driver main.  Strings are sequences of one-character  *)
(* strings, so that slicing, searching and trimming are computed and not    *)
(* assumed.                                                                 *)
EXTENDS Integers, Sequences, FiniteSets, TLC

VARIABLES
    pc,          \* position of the program
    text,        \* chunk_text: parameter text
    max_chars,   \* chunk_text: parameter max_chars
    start,       \* chunk_text: local start
    chunks,      \* chunk_text: local chunks (before the final filter)
    ct_result,   \* chunk_text: the returned list
    ct_calls,    \* how many times chunk_text was entered
    git,         \* the repository: what each git command of get_diff answers
    base_ref,    \* get_diff: parameter base_ref
    head_sha,    \* get_diff: parameter head_sha
    cand,        \* get_diff: index of the loop over candidates
    mb,          \* get_diff: local mb
    diff,        \* get_diff: the returned string
    cmds,        \* the commands run through sh, in order
    env,         \* main: the process environment and the event file
    max_context_chars,  \* main: local max_context_chars
    m_chunks,    \* main: local chunks
    m_i,         \* main: the loop index i
    sections,    \* main: local sections
    body,        \* main: local body
    calls,       \* the invocations of call_ollama, in order
    posts,       \* the bodies handed to post_issue_comment, in order
    stdout,      \* what was printed to standard output, in order
    stderr,      \* what was printed to the error stream, in order
    exit_code    \* -1 while running, else the status the process exited with

ctVars == <<text, max_chars, start, chunks, ct_result, ct_calls>>
gdVars == <<git, base_ref, head_sha, cand, mb, diff, cmds>>
mainVars == <<env, max_context_chars, m_chunks, m_i, sections, body, calls, posts, stdout>>
ioVars == <<stderr, exit_code>>

vars == <<pc, ctVars, gdVars, mainVars, ioVars>>

-----------------------------------------------------------------------------
(* Bounds of the model *)

\* longest text enumerated character by character
MaxLen == 3
\* chunk_text's loop is cut off after this many iterations (it need not end)
MaxIter == 8
\* the values of max_chars tried with the short texts are -2..MaxMax
MaxMax == 4
\* characters after the last marker of a long text
TailLen == 5
\* the small value of INPUT_MAX_CONTEXT_CHARS main is run with
SmallContext == 2

-----------------------------------------------------------------------------
(* Python's str and list primitives *)

Min(a, b) == IF a <= b THEN a ELSE b
Max(a, b) == IF a >= b THEN a ELSE b

SetMax(S) == CHOOSE x \in S : \A y \in S : y <= x

Rep(c, n) == [i \in 1..n |-> c]

RECURSIVE Concat(_)
Concat(ss) == IF ss = <<>> THEN <<>> ELSE Head(ss) \o Concat(Tail(ss))

\* a slice bound as Python normalises it: negative bounds count from the end
PyIndex(i, n) == IF i < 0 THEN Max(i + n, 0) ELSE Min(i, n)

\* s[a:b]
Slice(s, a, b) ==
    LET lo == PyIndex(a, Len(s))
        hi == PyIndex(b, Len(s))
    IN  IF hi <= lo THEN <<>> ELSE SubSeq(s, lo + 1, hi)

\* s.rfind(sub, a, b), for non-empty sub: the highest 0-based offset h with
\* s[h:h+len(sub)] = sub lying wholly inside s[a:b], or -1
RFind(s, sub, a, b) ==
    LET lo == PyIndex(a, Len(s))
        hi == PyIndex(b, Len(s))
        hits == {h \in lo..(hi - Len(sub)) :
                    \A k \in 1..Len(sub) : s[h + k] = sub[k]}
    IN  IF hits = {} THEN -1 ELSE SetMax(hits)

Whitespace == {" ", "\n", "\t"}

\* the number of whitespace characters s begins with, counted from position k
RECURSIVE LeadingSpace(_, _)
LeadingSpace(s, k) ==
    IF k > Len(s) \/ s[k] \notin Whitespace THEN 0 ELSE 1 + LeadingSpace(s, k + 1)

\* the number of whitespace characters s[1..k] ends with
RECURSIVE TrailingSpace(_, _)
TrailingSpace(s, k) ==
    IF k < 1 \/ s[k] \notin Whitespace THEN 0 ELSE 1 + TrailingSpace(s, k - 1)

\* s.strip()
Strip(s) ==
    LET lead == LeadingSpace(s, 1)
    IN  IF lead = Len(s) THEN <<>>
        ELSE SubSeq(s, lead + 1, Len(s) - TrailingSpace(s, Len(s)))

\* truth value of c.strip()
NonBlank(c) == \E i \in 1..Len(c) : c[i] \notin Whitespace

-----------------------------------------------------------------------------
(* chunk_text *)

\* "\\n@@" in the source: a backslash, the letter n and two at-signs
HunkMarker == <<"\\", "n", "@", "@">>

\* "\\ndiff --git " in the source
FileMarker ==
    <<"\\", "n", "d", "i", "f", "f", " ", "-", "-", "g", "i", "t", " ">>

MinDist == 1000

\* the default of INPUT_MAX_CONTEXT_CHARS
DefaultContext == 20000

\* a bug that would let the window hold one character too many
WindowEnd_Inclusive(t, s, m) == Min(s + m + 1, Len(t))

\* a bug that would let the window run to the end of the text
WindowEnd_Whole(t, s, m) == Len(t)

WindowEnd(t, s, m) == Min(s + m, Len(t))

Qualifies(h, s) == ~(h = -1 \/ h <= s + MinDist)

\* the split point h of one iteration
SplitPoint(t, s, m) ==
    LET end == WindowEnd(t, s, m)
        h1 == RFind(t, HunkMarker, s, end)
        h2 == IF Qualifies(h1, s) THEN h1 ELSE RFind(t, FileMarker, s, end)
    IN  IF Qualifies(h2, s) THEN h2 ELSE end

NextChunk(t, s, h) == Slice(t, s, h)

\* a bug that would resume one character after the split point
NextStart_Skip(h) == h + 1

NextStart(h) == h

\* a bug that would return the cut chunks unfiltered
FilterChunks_None(cs) == cs

FilterChunks(cs) == SelectSeq(cs, NonBlank)

\* a bug that would pass the short text through the final filter
ChunkSingle_Filtered ==
    /\ pc = "ct_entry"
    /\ Len(text) <= max_chars
    /\ ct_result' = FilterChunks(<<text>>)
    /\ ct_calls' = ct_calls + 1
    /\ pc' = "ct_done"
    /\ UNCHANGED <<text, max_chars, start, chunks, gdVars, mainVars, ioVars>>

ChunkSingle ==
    /\ pc = "ct_entry"
    /\ Len(text) <= max_chars
    /\ ct_result' = <<text>>
    /\ ct_calls' = ct_calls + 1
    /\ pc' = "ct_done"
    /\ UNCHANGED <<text, max_chars, start, chunks, gdVars, mainVars, ioVars>>

ChunkBegin ==
    /\ pc = "ct_entry"
    /\ ~(Len(text) <= max_chars)
    /\ chunks' = <<>>
    /\ start' = 0
    /\ ct_calls' = ct_calls + 1
    /\ pc' = "ct_loop"
    /\ UNCHANGED <<text, max_chars, ct_result, gdVars, mainVars, ioVars>>

ChunkIter ==
    /\ pc = "ct_loop"
    /\ start < Len(text)
    /\ Len(chunks) < MaxIter
    /\ LET h == SplitPoint(text, start, max_chars)
       IN  /\ chunks' = Append(chunks, NextChunk(text, start, h))
           /\ start' = NextStart(h)
    /\ UNCHANGED <<pc, text, max_chars, ct_result, ct_calls, gdVars, mainVars, ioVars>>

ChunkReturn ==
    /\ pc = "ct_loop"
    /\ ~(start < Len(text))
    /\ ct_result' = FilterChunks(chunks)
    /\ pc' = "ct_done"
    /\ UNCHANGED <<text, max_chars, start, chunks, ct_calls, gdVars, mainVars, ioVars>>

ChunkStep == ChunkSingle \/ ChunkBegin \/ ChunkIter \/ ChunkReturn

-----------------------------------------------------------------------------
(* sh and get_diff *)

\* the call sites of sh in get_diff and _ref_exists
Sites == {"fetch", "remote_add", "fetch_again", "rev_parse", "diff3",
          "merge_base", "diff2", "diff_last"}

\* a bug that would leave the three-dot diff outside any try block
InTry_NotDiff3(site) == site \in Sites \ {"diff3"}

\* the sh call at this site lies inside a try ... except SystemExit
InTry(site) == site \in Sites

OriginPrefix == <<"o", "r", "i", "g", "i", "n", "/">>

\* a bug that would list the bare base_ref before origin/<base_ref>
Candidates_Swapped == <<base_ref, OriginPrefix \o base_ref>>

\* candidates = [f"origin/{base_ref}", base_ref]
Candidates == <<OriginPrefix \o base_ref, base_ref>>

Cmd(op, args) == [op |-> op, args |-> args]

\* what the repository answers at a call site (at the two sites inside the
\* loop over candidates: for the ref that is candidate number c)
Answer(site, c) ==
    CASE site = "fetch"       -> git.fetch
      [] site = "remote_add"  -> git.remote_add
      [] site = "fetch_again" -> git.fetch_again
      [] site = "rev_parse"   -> git.rev_parse[Candidates[c]]
      [] site = "diff3"       -> git.diff3[Candidates[c]]
      [] site = "merge_base"  -> git.merge_base
      [] site = "diff2"       -> git.diff2
      [] site = "diff_last"   -> git.diff_last

\* sh(cmd) at a call site: the command is run; a non-zero status prints the
\* command's stderr and raises SystemExit(status), which leaves the process
\* unless the call site lies in a try block; `ok` and `failed` are the
\* continuations of the caller
Sh(site, command, ok, failed) ==
    LET res == Answer(site, cand)
    IN  /\ cmds' = Append(cmds, command)
        /\ IF res.rc = 0
           THEN /\ ok
                /\ UNCHANGED ioVars
           ELSE /\ stderr' = Append(stderr, "git")
                /\ IF InTry(site)
                   THEN /\ failed
                        /\ exit_code' = exit_code
                   ELSE /\ pc' = "exit"
                        /\ exit_code' = res.rc
                        /\ UNCHANGED <<cand, mb, diff>>

\* a bug that would leave the loop after its first candidate
AfterCandidate_Stop(c) == "gd_merge_base"

\* where the loop over candidates goes after candidate c
AfterCandidate(c) == IF c < Len(Candidates) THEN "gd_candidate" ELSE "gd_merge_base"

\* a bug that would never use the merge-base
AfterMergeBase_Skip(m) == "gd_diff_last"

\* if mb: two-dot diff, else on to the last resort
AfterMergeBase(m) == IF m # <<>> THEN "gd_diff2" ELSE "gd_diff_last"

GdFetch ==
    /\ pc = "gd_fetch"
    /\ Sh("fetch", Cmd("fetch", <<base_ref>>),
          pc' = "gd_candidate",
          pc' = "gd_remote_add")
    /\ UNCHANGED <<cand, mb, diff>>
    /\ UNCHANGED <<ctVars, mainVars, git, base_ref, head_sha>>

GdRemoteAdd ==
    /\ pc = "gd_remote_add"
    /\ Sh("remote_add", Cmd("remote add origin", <<>>),
          pc' = "gd_fetch_again",
          pc' = "gd_candidate")
    /\ UNCHANGED <<cand, mb, diff>>
    /\ UNCHANGED <<ctVars, mainVars, git, base_ref, head_sha>>

GdFetchAgain ==
    /\ pc = "gd_fetch_again"
    /\ Sh("fetch_again", Cmd("fetch", <<base_ref>>),
          pc' = "gd_candidate",
          pc' = "gd_candidate")
    /\ UNCHANGED <<cand, mb, diff>>
    /\ UNCHANGED <<ctVars, mainVars, git, base_ref, head_sha>>

\* _ref_exists(base) for the current candidate
GdRefExists ==
    /\ pc = "gd_candidate"
    /\ Sh("rev_parse", Cmd("rev-parse", <<Candidates[cand]>>),
          pc' = "gd_diff3" /\ UNCHANGED <<cand, mb, diff>>,
          pc' = AfterCandidate(cand) /\ cand' = cand + 1 /\ UNCHANGED <<mb, diff>>)
    /\ UNCHANGED <<ctVars, mainVars, git, base_ref, head_sha>>

GdDiff3 ==
    /\ pc = "gd_diff3"
    /\ Sh("diff3", Cmd("diff three-dot", <<Candidates[cand], head_sha>>),
          pc' = "gd_done" /\ diff' = Strip(git.diff3[Candidates[cand]].out)
              /\ UNCHANGED <<cand, mb>>,
          pc' = AfterCandidate(cand) /\ cand' = cand + 1 /\ UNCHANGED <<mb, diff>>)
    /\ UNCHANGED <<ctVars, mainVars, git, base_ref, head_sha>>

GdMergeBase ==
    /\ pc = "gd_merge_base"
    /\ Sh("merge_base", Cmd("merge-base", <<head_sha, base_ref>>),
          /\ mb' = Strip(git.merge_base.out)
          /\ pc' = AfterMergeBase(Strip(git.merge_base.out))
          /\ UNCHANGED <<cand, diff>>,
          pc' = "gd_diff_last" /\ UNCHANGED <<cand, mb, diff>>)
    /\ UNCHANGED <<ctVars, mainVars, git, base_ref, head_sha>>

\* a bug that would give up with the empty diff when the two-dot diff fails
GdDiff2_GivesUp ==
    /\ pc = "gd_diff2"
    /\ Sh("diff2", Cmd("diff two-dot", <<mb, head_sha>>),
          pc' = "gd_done" /\ diff' = Strip(git.diff2.out) /\ UNCHANGED <<cand, mb>>,
          pc' = "gd_done" /\ diff' = <<>> /\ UNCHANGED <<cand, mb>>)
    /\ UNCHANGED <<ctVars, mainVars, git, base_ref, head_sha>>

GdDiff2 ==
    /\ pc = "gd_diff2"
    /\ Sh("diff2", Cmd("diff two-dot", <<mb, head_sha>>),
          pc' = "gd_done" /\ diff' = Strip(git.diff2.out) /\ UNCHANGED <<cand, mb>>,
          pc' = "gd_diff_last" /\ UNCHANGED <<cand, mb, diff>>)
    /\ UNCHANGED <<ctVars, mainVars, git, base_ref, head_sha>>

GdDiffLast ==
    /\ pc = "gd_diff_last"
    /\ Sh("diff_last", Cmd("diff HEAD~1..HEAD", <<>>),
          pc' = "gd_done" /\ diff' = Strip(git.diff_last.out)
              /\ UNCHANGED <<cand, mb>>,
          pc' = "gd_done" /\ diff' = <<>> /\ UNCHANGED <<cand, mb>>)
    /\ UNCHANGED <<ctVars, mainVars, git, base_ref, head_sha>>

GetDiffStep ==
    \/ GdFetch \/ GdRemoteAdd \/ GdFetchAgain
    \/ GdRefExists \/ GdDiff3
    \/ GdMergeBase \/ GdDiff2 \/ GdDiffLast

-----------------------------------------------------------------------------
(* Inputs of get_diff: the repository *)

BaseRef == <<"m", "a", "i", "n">>
HeadSha == <<"f", "0">>
OriginRef == OriginPrefix \o BaseRef
Refs == {OriginRef, BaseRef}

Failed == [rc |-> 1, out |-> <<>>]
Done(out) == [rc |-> 0, out |-> out]

ExitOnly == {Failed, Done(<<>>)}

\* a command that fails, prints only whitespace, or prints `out` between
\* whitespace
Prints(out) == {Failed, Done(<<"\n">>), Done(<<" ">> \o out \o <<"\n">>)}

GitEnvs ==
    [fetch : ExitOnly, remote_add : ExitOnly, fetch_again : ExitOnly,
     rev_parse : [Refs -> ExitOnly],
     diff3 : {[r \in Refs |-> IF r = BaseRef THEN b ELSE o] :
                 o \in Prints(<<"o", " ", "x">>), b \in Prints(<<"b", " ", "x">>)},
     merge_base : Prints(<<"c", "0">>) \cup {Done(<<>>)},
     diff2 : Prints(<<"m", " ", "x">>),
     diff_last : Prints(<<"l", " ", "x">>)]


IdleChunk ==
    /\ text = <<>>
    /\ max_chars = 0
    /\ start = 0
    /\ chunks = <<>>
    /\ ct_result = <<>>
    /\ ct_calls = 0

IdleGetDiff ==
    /\ git = [fetch |-> Failed, remote_add |-> Failed, fetch_again |-> Failed,
              rev_parse |-> [r \in Refs |-> Failed],
              diff3 |-> [r \in Refs |-> Failed],
              merge_base |-> Failed, diff2 |-> Failed, diff_last |-> Failed]
    /\ base_ref = <<>>
    /\ head_sha = <<>>
    /\ cand = 1
    /\ mb = <<>>
    /\ diff = <<>>
    /\ cmds = <<>>

IdleMain ==
    /\ env = [event_path_set |-> FALSE, event_path |-> <<>>,
              event_file_exists |-> FALSE, pull_request |-> FALSE,
              repository |-> <<>>, max_context_chars |-> 0]
    /\ max_context_chars = 0
    /\ m_chunks = <<>>
    /\ m_i = 0
    /\ sections = <<>>
    /\ body = <<>>
    /\ calls = <<>>
    /\ posts = <<>>
    /\ stdout = <<>>

IdleIo ==
    /\ stderr = <<>>
    /\ exit_code = 0 - 1

InitGetDiff ==
    /\ pc = "gd_fetch"
    /\ git \in GitEnvs
    /\ base_ref = BaseRef
    /\ head_sha = HeadSha
    /\ cand = 1
    /\ mb = <<>>
    /\ diff = <<>>
    /\ cmds = <<>>
    /\ IdleChunk
    /\ IdleMain
    /\ IdleIo

NextGetDiffOnly == GetDiffStep

SpecGetDiff == InitGetDiff /\ [][NextGetDiffOnly]_vars

-----------------------------------------------------------------------------
(* Inputs of chunk_text *)

Alphabet == {"a", " ", "\n"}

RECURSIVE TextsOfLen(_)
TextsOfLen(n) ==
    IF n = 0 THEN {<<>>}
    ELSE {Append(t, c) : t \in TextsOfLen(n - 1), c \in Alphabet}

ShortTexts == UNION {TextsOfLen(n) : n \in 0..MaxLen}

ShortMaxes == (0 - 2)..MaxMax

\* what git prints at the head of a hunk and of a file: a real newline first
RealHunkMarker == <<"\n", "@", "@">>
RealFileMarker ==
    <<"\n", "d", "i", "f", "f", " ", "-", "-", "g", "i", "t", " ">>

Markers == {HunkMarker, FileMarker, RealHunkMarker, RealFileMarker}

Filler(n) == Rep("a", n)

\* texts long enough for a marker to lie more than MinDist after the start
LongTexts ==
    {Filler(p) \o m \o Filler(TailLen) : p \in {MinDist, MinDist + 1}, m \in Markers}
    \cup {Filler(MinDist + 1) \o m1 \o Filler(2) \o m2 \o Filler(TailLen) :
             m1 \in Markers, m2 \in Markers}
    \cup {Filler(MinDist + 1) \o HunkMarker \o Filler(MinDist + 1) \o m \o Filler(TailLen) :
             m \in Markers}
    \cup {Rep(" ", MinDist + 1) \o m \o Filler(TailLen) : m \in Markers}

LongMaxes == {0 - 1, MinDist + 4, MinDist + 5, MinDist + 12}

InitChunk ==
    /\ pc = "ct_entry"
    /\ \/ text \in ShortTexts /\ max_chars \in ShortMaxes
       \/ text \in LongTexts /\ max_chars \in LongMaxes
    /\ start = 0
    /\ chunks = <<>>
    /\ ct_result = <<>>
    /\ ct_calls = 0
    /\ IdleGetDiff
    /\ IdleMain
    /\ IdleIo

NextChunkOnly == ChunkStep

SpecChunk == InitChunk /\ [][NextChunkOnly]_vars

-----------------------------------------------------------------------------
(* call_ollama, post_issue_comment and main *)

Ceiling == 18000

Spaces(n) == Rep(" ", n)

\* str(n) for n >= 0
RECURSIVE Decimal(_)
Decimal(n) ==
    LET digit == <<"0", "1", "2", "3", "4", "5", "6", "7", "8", "9">>[(n % 10) + 1]
    IN  IF n < 10 THEN <<digit>> ELSE Append(Decimal(n \div 10), digit)

\* sep.join(xs)
RECURSIVE Join(_, _)
Join(sep, xs) ==
    IF xs = <<>> THEN <<>>
    ELSE IF Len(xs) = 1 THEN xs[1]
    ELSE xs[1] \o sep \o Join(sep, Tail(xs))

\* the body posted when the diff is empty
NoChangesBody ==
    <<"N", "o", " ", "c", "o", "d", "e", " ", "c", "h", "a", "n", "g", "e",
      "s", " ", "d", "e", "t", "e", "c", "t", "e", "d", " ", "i", "n", " ",
      "t", "h", "e", " ", "d", "i", "f", "f", ".">>

\* the first line of the comment; the four non-ASCII characters of the
\* source are written as their code points
Header ==
    <<"#", " ", "u00f0", "u0178", "u00a4", "u2013", " ", "O", "l", "l",
      "a", "m", "a", " ", "C", "o", "d", "e", " ", "R", "e", "v", "i", "e",
      "w", ":">>

\* the separator between two sections
Separator ==
    <<"\n">> \o Spaces(4) \o <<"\n">> \o Spaces(24) \o <<"-", "-", "-", "\n">>
    \o Spaces(24) \o <<"\n">> \o Spaces(24)

TruncationNotice ==
    <<"_", "N", "o", "t", "e", ":", " ", "R", "e", "v", "i", "e", "w", " ",
      "t", "r", "u", "n", "c", "a", "t", "e", "d", " ", "d", "u", "e", " ",
      "t", "o", " ", "s", "i", "z", "e", " ", "l", "i", "m", "i", "t", "s",
      ".">>
    \o <<"\n">> \o Spaces(8) \o <<"\n">> \o Spaces(16)

\* the section appended for chunk k of n
SectionOf(k, n, reply) ==
    <<"\n">> \o Spaces(24) \o <<"\n">> \o Spaces(24)
    \o <<"#", "#", "#", " ", "C", "h", "u", "n", "k", " ">>
    \o Decimal(k) \o <<"/">> \o Decimal(n) \o <<" ", "\n">>
    \o Spaces(24) \o <<"#", " ", "\n">> \o Spaces(24) \o <<"#", " ">> \o reply

\* the message that stands for the reply of a failed chunk: "Chunk ", i,
\* " review failed: ", then the failure detail between two backquotes (the
\* backquote is written as its code point)
FailureMessage(k, detail) ==
    <<"C", "h", "u", "n", "k", " ">> \o Decimal(k)
    \o <<" ", "r", "e", "v", "i", "e", "w", " ", "f", "a", "i", "l", "e", "d",
         ":", " ", "u0060">> \o detail \o <<"u0060">>

\* what call_ollama returns for the JSON it received
CallOllamaReturn(ans) ==
    IF Strip(ans.content) # <<>> THEN Strip(ans.content) ELSE ans.response

\* a bug that would catch only the HTTP status errors
Catches_HttpOnly(kind) == kind = "HTTPError"

\* except Exception: the failures call_ollama can raise are all of that class
Catches(kind) == kind \in {"ConnectionError", "HTTPError", "JSONDecodeError"}

\* a bug that would test the length with >=
TooLong_Inclusive(b) == Len(b) >= Ceiling

TooLong(b) == Len(b) > Ceiling

\* a bug that would keep the first Ceiling characters
Truncate_Head(b) ==
    IF TooLong(b) THEN TruncationNotice \o Slice(b, 0, Ceiling) ELSE b

\* lines 187-190
Truncate(b) ==
    IF TooLong(b) THEN TruncationNotice \o Slice(b, 0 - Ceiling, Len(b)) ELSE b

Assemble(secs) == Header \o Join(Separator, secs)

\* a bug that would take every diff for non-empty
IsEmptyDiff_Never(d) == FALSE

\* not diff
IsEmptyDiff(d) == d = <<>>

\* the answers of the two remote services
PostStatuses == {201, 500}

\* a reply that makes the body of a one-chunk review exactly Ceiling long
FillingReply == Rep("r", Ceiling - Len(Assemble(<<SectionOf(1, 1, <<>>)>>)))

Reply(content, response) ==
    [kind |-> "ok", content |-> content, response |-> response, detail |-> <<>>]

Raises(kind, detail) ==
    [kind |-> kind, content |-> <<>>, response |-> <<>>, detail |-> detail]

ModelAnswers ==
    {Reply(<<" ", "o", "k", "\n">>, <<>>),
     Reply(<<" ">>, <<"R">>),
     Reply(FillingReply, <<>>),
     Reply(FillingReply \o <<"r">>, <<>>),
     Raises("ConnectionError", <<"d", "o", "w", "n">>),
     Raises("HTTPError", Rep("e", Ceiling))}

\* sys.exit(1) after a diagnostic, or the traceback of an uncaught exception
Die(diagnostic) ==
    /\ stderr' = Append(stderr, diagnostic)
    /\ exit_code' = 1
    /\ pc' = "exit"

\* post_issue_comment(..., b): the request is made; a status >= 300 is fatal
PostIssueComment(b, status, returned) ==
    /\ posts' = Append(posts, b)
    /\ IF status >= 300
       THEN /\ Die("Failed to post comment")
            /\ UNCHANGED stdout
       ELSE returned

MainGetEvent ==
    /\ pc = "main"
    /\ IF ~env.event_path_set
       THEN \* not None is true, and the message + None raises TypeError
            Die("Traceback: TypeError")
       ELSE IF env.event_path = <<>> \/ ~env.event_file_exists
       THEN Die("GITHUB_EVENT_PATH missing")
       ELSE /\ pc' = "m_pull_request"
            /\ UNCHANGED ioVars
    /\ UNCHANGED <<ctVars, gdVars, mainVars>>

MainPullRequest ==
    /\ pc = "m_pull_request"
    /\ IF ~env.pull_request
       THEN /\ Die("Not a pull_request event.")
            /\ UNCHANGED <<base_ref, head_sha>>
       ELSE /\ base_ref' = BaseRef
            /\ head_sha' = HeadSha
            /\ pc' = "m_repo_info"
            /\ UNCHANGED ioVars
    /\ UNCHANGED <<ctVars, git, cand, mb, diff, cmds, mainVars>>

\* a bug that would go on without the repository identifier
MainRepoInfo_NoCheck ==
    /\ pc = "m_repo_info"
    /\ pc' = "m_config"
    /\ UNCHANGED <<ctVars, gdVars, mainVars, ioVars>>

MainRepoInfo ==
    /\ pc = "m_repo_info"
    /\ IF env.repository = <<>> \/ ~(\E k \in 1..Len(env.repository) : env.repository[k] = "/")
       THEN Die("GITHUB_REPOSITORY not found.")
       ELSE /\ pc' = "m_config"
            /\ UNCHANGED ioVars
    /\ UNCHANGED <<ctVars, gdVars, mainVars>>

\* lines 147-157: the inputs are read, the banner is printed, get_diff is called
MainConfig ==
    /\ pc = "m_config"
    /\ max_context_chars' = env.max_context_chars
    /\ stdout' = Append(stdout, "[action] Reviewing PR")
    /\ pc' = "gd_fetch"
    /\ UNCHANGED <<ctVars, gdVars, ioVars>>
    /\ UNCHANGED <<env, m_chunks, m_i, sections, body, calls, posts>>

\* lines 158-160: the empty diff
MainNoChanges ==
    /\ pc = "gd_done"
    /\ IsEmptyDiff(diff)
    /\ \E status \in PostStatuses :
          PostIssueComment(NoChangesBody, status,
              /\ pc' = "done"
              /\ exit_code' = 0
              /\ UNCHANGED <<stdout, stderr>>)
    /\ UNCHANGED <<ctVars, gdVars>>
    /\ UNCHANGED <<env, max_context_chars, m_chunks, m_i, sections, body, calls>>

\* line 162: chunk_text(diff, max_context_chars) is called
MainCallChunkText ==
    /\ pc = "gd_done"
    /\ ~IsEmptyDiff(diff)
    /\ text' = diff
    /\ max_chars' = max_context_chars
    /\ pc' = "ct_entry"
    /\ UNCHANGED <<start, chunks, ct_result, ct_calls, gdVars, mainVars, ioVars>>

\* lines 162-164: chunk_text has returned, the loop begins
MainChunksReady ==
    /\ pc = "ct_done"
    /\ m_chunks' = ct_result
    /\ sections' = <<>>
    /\ m_i' = 1
    /\ pc' = "m_loop"
    /\ UNCHANGED <<ctVars, gdVars, ioVars>>
    /\ UNCHANGED <<env, max_context_chars, body, calls, posts, stdout>>

\* lines 164-180: one iteration; the prompt built around the chunk is not
\* modelled, the invocation is recorded with the chunk it carries
MainReview ==
    /\ pc = "m_loop"
    /\ m_i <= Len(m_chunks)
    /\ \E ans \in ModelAnswers :
          /\ calls' = Append(calls, [i |-> m_i, chunk |-> m_chunks[m_i], answer |-> ans])
          /\ IF ans.kind = "ok" \/ Catches(ans.kind)
             THEN /\ sections' = Append(sections,
                        SectionOf(m_i, Len(m_chunks),
                                  IF ans.kind = "ok" THEN CallOllamaReturn(ans)
                                  ELSE FailureMessage(m_i, ans.detail)))
                  /\ m_i' = m_i + 1
                  /\ UNCHANGED <<pc, ioVars>>
             ELSE /\ Die("Traceback: " \o ans.kind)
                  /\ UNCHANGED <<sections, m_i>>
    /\ UNCHANGED <<ctVars, gdVars>>
    /\ UNCHANGED <<env, max_context_chars, m_chunks, body, posts, stdout>>

\* lines 182-190
MainAssemble ==
    /\ pc = "m_loop"
    /\ ~(m_i <= Len(m_chunks))
    /\ body' = Truncate(Assemble(sections))
    /\ pc' = "m_post"
    /\ UNCHANGED <<ctVars, gdVars, ioVars>>
    /\ UNCHANGED <<env, max_context_chars, m_chunks, m_i, sections, calls, posts, stdout>>

\* lines 192-193
MainPost ==
    /\ pc = "m_post"
    /\ \E status \in PostStatuses :
          PostIssueComment(body, status,
              /\ stdout' = Append(stdout, "[action] Review posted.")
              /\ pc' = "done"
              /\ exit_code' = 0
              /\ UNCHANGED stderr)
    /\ UNCHANGED <<ctVars, gdVars>>
    /\ UNCHANGED <<env, max_context_chars, m_chunks, m_i, sections, body, calls>>

MainStep ==
    \/ MainGetEvent \/ MainPullRequest \/ MainRepoInfo \/ MainConfig
    \/ MainNoChanges \/ MainCallChunkText \/ MainChunksReady
    \/ MainReview \/ MainAssemble \/ MainPost

-----------------------------------------------------------------------------
(* Inputs of main *)

\* the repositories main is run in: one per outcome of get_diff
MainGitEnvs ==
    {g \in GitEnvs :
        \/ \* everything that can fail fails: the empty diff by the last resort
           /\ g.fetch = Failed /\ g.remote_add = Done(<<>>) /\ g.fetch_again = Failed
           /\ \A r \in Refs : g.rev_parse[r] = Done(<<>>) /\ g.diff3[r] = Failed
           /\ g.merge_base.rc = 0 /\ Strip(g.merge_base.out) # <<>>
           /\ g.diff2 = Failed /\ g.diff_last = Failed
        \/ \* the base is fetched and resolves; the three-dot diff decides
           /\ g.fetch = Done(<<>>) /\ g.remote_add = Failed /\ g.fetch_again = Failed
           /\ g.rev_parse[OriginRef] = Done(<<>>) /\ g.rev_parse[BaseRef] = Failed
           /\ g.diff3[OriginRef].rc = 0 /\ g.diff3[BaseRef] = Failed
           /\ g.merge_base = Failed /\ g.diff2 = Failed /\ g.diff_last = Failed
        \/ \* no ref resolves; the merge-base and the two-dot diff decide
           /\ g.fetch = Failed /\ g.remote_add = Failed /\ g.fetch_again = Failed
           /\ \A r \in Refs : g.rev_parse[r] = Failed /\ g.diff3[r] = Failed
           /\ g.merge_base.rc = 0 /\ Strip(g.merge_base.out) # <<>>
           /\ g.diff2.rc = 0 /\ NonBlank(g.diff2.out) /\ g.diff_last = Failed}

Envs ==
    [event_path_set : BOOLEAN,
     event_path : {<<>>, <<"e">>},
     event_file_exists : BOOLEAN,
     pull_request : BOOLEAN,
     repository : {<<>>, <<"r">>, <<"o", "/", "r">>},
     max_context_chars : {0, SmallContext, DefaultContext}]

Init ==
    /\ pc = "main"
    /\ env \in Envs
    /\ git \in MainGitEnvs
    /\ base_ref = <<>>
    /\ head_sha = <<>>
    /\ cand = 1
    /\ mb = <<>>
    /\ diff = <<>>
    /\ cmds = <<>>
    /\ max_context_chars = 0
    /\ m_chunks = <<>>
    /\ m_i = 0
    /\ sections = <<>>
    /\ body = <<>>
    /\ calls = <<>>
    /\ posts = <<>>
    /\ stdout = <<>>
    /\ IdleChunk
    /\ IdleIo

Next == MainStep \/ GetDiffStep \/ ChunkStep

Spec == Init /\ [][Next]_vars

-----------------------------------------------------------------------------
(* Claims about main, checked under Spec *)

\* get_diff was called and has returned
GetDiffReturned ==
    \/ pc \in {"gd_done", "ct_entry", "ct_loop", "ct_done", "m_loop", "m_post", "done"}
    \/ pc = "exit" /\ cmds # <<>>

\* C8: when get_diff returns the empty string, main posts exactly one comment,
\* whose body is "No code changes detected in the diff.", and neither the
\* model nor the chunker is ever invoked.
C8_EmptyDiffPostsNoChanges ==
    (GetDiffReturned /\ diff = <<>>) =>
        /\ calls = <<>>
        /\ ct_calls = 0
        /\ pc \in {"gd_done", "done", "exit"}
        /\ posts = IF pc = "gd_done" THEN <<>> ELSE <<NoChangesBody>>

C8_Witness ==
    /\ pc = "done"
    /\ cmds # <<>>
    /\ diff = <<>>
    /\ posts = <<NoChangesBody>>
    /\ calls = <<>>

\* sub occurs in s
Contains(s, sub) ==
    \E h \in 0..(Len(s) - Len(sub)) : \A k \in 1..Len(sub) : s[h + k] = sub[k]

LabelOf(k, n) ==
    <<"#", "#", "#", " ", "C", "h", "u", "n", "k", " ">>
    \o Decimal(k) \o <<"/">> \o Decimal(n) \o <<" ">>

SomeCallFailed == \E k \in 1..Len(calls) : calls[k].answer.kind # "ok"

EveryChunkSent ==
    /\ Len(calls) = Len(m_chunks)
    /\ \A k \in 1..Len(calls) : calls[k].i = k /\ calls[k].chunk = m_chunks[k]

\* C9 as stated: when the model invocation fails for some chunk, every chunk
\* is still sent to the model and the posted comment holds the N sections
\* labelled Chunk 1/N .. Chunk N/N, the failed ones carrying an error message
\* that embeds the failure detail.
C9_AllSectionsPosted ==
    (posts # <<>> /\ diff # <<>> /\ SomeCallFailed) =>
        /\ EveryChunkSent
        /\ \A k \in 1..Len(m_chunks) :
              /\ Contains(posts[1], LabelOf(k, Len(m_chunks)))
              /\ calls[k].answer.kind # "ok" =>
                    Contains(posts[1], FailureMessage(k, calls[k].answer.detail))

\* what the section of chunk k must say, given how its invocation ended
ExpectedSection(k) ==
    SectionOf(k, Len(m_chunks),
              IF calls[k].answer.kind = "ok" THEN CallOllamaReturn(calls[k].answer)
              ELSE FailureMessage(k, calls[k].answer.detail))

\* C9 as amended: a failed model invocation never ends the run; when the
\* comment is posted every chunk has been sent to the model in order, chunk k
\* has its section labelled Chunk k/N, carrying the reply or, for a failed
\* invocation, the error message embedding the failure detail, and what is
\* posted is the comment assembled from these N sections in order, whole if it
\* has at most 18000 characters and otherwise cut to the truncation notice
\* plus its last 18000 characters (so sections at its front can be missing).
C9_SectionsAssembledThenCut ==
    /\ (pc = "exit" /\ calls # <<>>) => posts # <<>>
    /\ (posts # <<>> /\ diff # <<>>) =>
          /\ EveryChunkSent
          /\ Len(sections) = Len(m_chunks)
          /\ \A k \in 1..Len(m_chunks) :
                /\ sections[k] = ExpectedSection(k)
                /\ Contains(sections[k], LabelOf(k, Len(m_chunks)))
          /\ LET whole == Header \o Join(Separator, sections)
             IN  posts[1] = IF Len(whole) <= Ceiling THEN whole
                            ELSE TruncationNotice
                                 \o SubSeq(whole, Len(whole) - Ceiling + 1, Len(whole))

\* the first chunk failed, the second was still reviewed, the comment is whole
C9_Witness ==
    /\ posts # <<>>
    /\ Len(m_chunks) = 2
    /\ EveryChunkSent
    /\ calls[1].answer.kind = "ConnectionError"
    /\ calls[2].answer.kind = "ok"
    /\ Contains(posts[1], FailureMessage(1, <<"d", "o", "w", "n">>))
    /\ Contains(posts[1], LabelOf(2, 2))

\* C10: an assembled body longer than 18000 characters is posted as the
\* truncation notice followed by exactly its last 18000 characters; a body of
\* at most 18000 characters is posted unchanged.
C10_TruncatedToLast18000 ==
    (posts # <<>> /\ diff # <<>>) =>
        LET whole == Header \o Join(Separator, sections)
            posted == posts[1]
            notice == Len(TruncationNotice)
        IN  /\ Len(posts) = 1
            /\ IF Len(whole) > 18000
               THEN /\ Len(posted) = notice + 18000
                    /\ SubSeq(posted, 1, notice) = TruncationNotice
                    /\ SubSeq(posted, notice + 1, notice + 18000)
                          = SubSeq(whole, Len(whole) - 17999, Len(whole))
               ELSE posted = whole

\* both cases next to the limit: a body of 18001 characters was cut
C10_Witness ==
    /\ pc = "done"
    /\ Len(sections) = 1
    /\ Len(Header \o Join(Separator, sections)) = 18001
    /\ Len(posts[1]) = Len(TruncationNotice) + 18000

\* the configuration of this run is in error: the event file, the event or
\* the repository identifier is missing or unusable
ConfigError ==
    \/ ~env.event_path_set
    \/ env.event_path = <<>>
    \/ ~env.event_file_exists
    \/ ~env.pull_request
    \/ env.repository = <<>>
    \/ ~Contains(env.repository, <<"/">>)

\* C11: on a configuration error (GITHUB_EVENT_PATH unset or naming no file,
\* an event that is not a pull_request, GITHUB_REPOSITORY missing or without
\* a slash) the run ends with a non-zero status before any network activity:
\* no git command, no model invocation and no comment post has happened.
C11_ConfigErrorBeforeNetwork ==
    ConfigError =>
        /\ cmds = <<>>
        /\ calls = <<>>
        /\ posts = <<>>
        /\ pc \in {"main", "m_pull_request", "m_repo_info", "exit"}
        /\ pc = "exit" => exit_code >= 1

\* the last of the checks has ended the run: a repository without a slash
C11_Witness ==
    /\ pc = "exit"
    /\ exit_code = 1
    /\ env.event_path_set /\ env.event_path # <<>> /\ env.event_file_exists
    /\ env.pull_request
    /\ env.repository = <<"r">>
    /\ cmds = <<>> /\ calls = <<>> /\ posts = <<>>

\* the diagnostic the fatal path of this run owes to the error stream
DiagnosticOwed ==
    IF ~env.event_path_set \/ env.event_path = <<>> \/ ~env.event_file_exists
    THEN "GITHUB_EVENT_PATH missing"
    ELSE IF ~env.pull_request THEN "Not a pull_request event."
    ELSE IF env.repository = <<>> \/ ~Contains(env.repository, <<"/">>)
    THEN "GITHUB_REPOSITORY not found."
    ELSE "Failed to post comment"

\* C12: every fatal path has printed its diagnostic to the error stream when
\* the process exits non-zero: the missing event file (GITHUB_EVENT_PATH unset
\* or naming no file), the missing repository identifier, the event that is
\* not a pull_request, and the comment post answered with a status >= 300;
\* after a failed post "[action] Review posted." is never printed.
C12_FatalPathsPrintDiagnostic ==
    pc = "exit" =>
        /\ exit_code >= 1
        /\ stderr # <<>>
        /\ stderr[Len(stderr)] = DiagnosticOwed
        /\ posts # <<>> =>
              \A k \in 1..Len(stdout) : stdout[k] # "[action] Review posted."

\* the invocations so far are those of chunks 1, 2, .. in order, each one
\* answered before the next, and the comment is posted at most once, after the
\* last of them; a run that is over has posted
SequentialSoFar ==
    /\ \A k \in 1..Len(calls) :
          /\ calls[k].i = k
          /\ k <= Len(m_chunks)
          /\ calls[k].chunk = m_chunks[k]
    /\ Len(sections) = Len(calls)
    /\ Len(posts) <= 1
    /\ posts # <<>> => Len(calls) = Len(m_chunks) /\ pc \in {"done", "exit"}
    /\ pc \in {"done", "exit"} => Len(posts) = 1

\* an iteration of the chunker's loop changes what the loop is controlled by,
\* so that the run does not stay in it for ever
LoopMovesOn ==
    (pc = "ct_loop" /\ chunks' # chunks)
        => <<text, max_chars, start>>' # <<text, max_chars, start>>

\* C17: on every run of main with a non-empty diff the model is invoked
\* exactly once per chunk, in chunk order, each invocation completing before
\* the next begins, and the comment is posted exactly once, only after the
\* last chunk has been processed: the run gets through the chunker to the
\* post.
C17_OncePerChunkThenOnePost ==
    /\ []((GetDiffReturned /\ diff # <<>>) => SequentialSoFar)
    /\ [][LoopMovesOn]_vars

-----------------------------------------------------------------------------
(* Claims about chunk_text, checked under SpecChunk *)

AllNonBlank(cs) == \A i \in 1..Len(cs) : NonBlank(cs[i])

\* C1 as stated: for every non-empty text and every max_chars, the returned
\* chunks concatenated in order are text itself.
C1_ConcatReturnedIsText ==
    (pc = "ct_done" /\ text # <<>>) => Concat(ct_result) = text

\* C1 as amended: when chunk_text returns for a non-empty text, the chunks cut
\* by the loop concatenate to text exactly, and the returned chunks concatenate
\* to text exactly whenever none of the cut chunks is whitespace-only (those
\* are the ones the final filter drops).
C1_ConcatCutIsText ==
    (pc = "ct_done" /\ text # <<>>) =>
        /\ Len(text) > max_chars => Concat(chunks) = text
        /\ AllNonBlank(chunks) => Concat(ct_result) = text

C1_Witness ==
    /\ pc = "ct_done"
    /\ Len(chunks) >= 2
    /\ Len(ct_result) >= 1
    /\ Len(ct_result) < Len(chunks)
    /\ Concat(chunks) = text
    /\ Concat(ct_result) # text

\* C2: for max_chars <= 0 and a non-empty text, every iteration of the loop
\* strictly advances start (so the loop ends).
C2_StartAdvances ==
    [][(pc = "ct_loop" /\ max_chars <= 0 /\ text # <<>> /\ chunks' # chunks)
          => start' > start]_vars

\* offsets of the hunk headers "\n@@" lying inside the window of the iteration
\* that begins at s, more than MinDist after s
HunkHeadersInWindow(t, s, m) ==
    {h \in (s + MinDist + 1)..(WindowEnd(t, s, m) - Len(RealHunkMarker)) :
        \A k \in 1..Len(RealHunkMarker) : t[h + k] = RealHunkMarker[k]}

\* C3: in a text longer than max_chars, an iteration whose window holds a hunk
\* header (a newline followed by "@@") more than 1000 characters after start
\* splits exactly at the last such header.
C3_SplitsAtHunkHeader ==
    [][(/\ pc = "ct_loop"
        /\ max_chars > 0
        /\ chunks' # chunks
        /\ HunkHeadersInWindow(text, start, max_chars) # {})
          => start' = SetMax(HunkHeadersInWindow(text, start, max_chars))]_vars

\* C7 as stated: every returned chunk is non-empty after trimming, and the
\* returned sequence is empty only if text is empty.
C7_ChunksNonBlank ==
    pc = "ct_done" => /\ AllNonBlank(ct_result)
                      /\ ct_result = <<>> => text = <<>>

\* C7 as amended: when chunk_text returns from its splitting path (text longer
\* than max_chars) every returned chunk is non-empty after trimming; on either
\* path the returned sequence is empty only if text has no character other
\* than whitespace.
C7_SplitChunksNonBlank ==
    pc = "ct_done" => /\ Len(text) > max_chars => AllNonBlank(ct_result)
                      /\ ct_result = <<>> => ~NonBlank(text)

C7_Witness ==
    /\ pc = "ct_done"
    /\ Len(text) > max_chars
    /\ ct_result # <<>>
    /\ Len(ct_result) < Len(chunks)
    /\ AllNonBlank(ct_result)

\* C14: for every non-empty text with len(text) <= max_chars, chunk_text
\* returns exactly the one-element sequence [text], the text neither trimmed
\* nor altered.
C14_ShortTextSingleChunk ==
    (pc = "ct_done" /\ text # <<>> /\ Len(text) <= max_chars) =>
        /\ ct_result = <<text>>
        /\ chunks = <<>>

\* a text of exactly max_chars characters with whitespace at both ends
C14_Witness ==
    /\ pc = "ct_done"
    /\ text = <<" ", "a", "\n">>
    /\ max_chars = Len(text)
    /\ Strip(text) # text
    /\ ct_result = <<text>>

\* mk occurs in t at offset h
OccursAt(t, mk, h) ==
    /\ h >= 0
    /\ h + Len(mk) <= Len(t)
    /\ \A k \in 1..Len(mk) : t[h + k] = mk[k]

\* no hunk or file marker, in either spelling, lies anywhere at or after s
NoMarkerFrom(t, s) ==
    \A mk \in Markers : \A h \in s..Len(t) : ~OccursAt(t, mk, h)

\* no hunk or file marker, in either spelling, lies inside the window of the
\* iteration that begins at s more than MinDist after s
NoQualifyingMarker(t, s, m) ==
    \A mk \in Markers :
        \A h \in (s + MinDist + 1)..(Min(s + m, Len(t)) - Len(mk)) :
            ~OccursAt(t, mk, h)

\* C16 as stated: a stretch of text longer than max_chars that holds no hunk
\* or file marker is emitted as one oversized chunk, never cut inside.
C16_OversizedStretchKeptWhole ==
    [][(/\ pc = "ct_loop"
        /\ max_chars > 0
        /\ chunks' # chunks
        /\ Len(text) - start > max_chars
        /\ NoMarkerFrom(text, start))
          => /\ start' = Len(text)
             /\ chunks'[Len(chunks')] = Slice(text, start, Len(text))]_vars

\* C16 as amended: for max_chars >= 1, an iteration whose window holds no
\* marker more than 1000 characters after start cuts exactly at the window
\* end: the chunk is the next min(max_chars, len(text) - start) characters, so
\* a stretch longer than max_chars is cut inside, into pieces of max_chars
\* characters, and no oversized chunk is emitted.
C16_UnmarkedStretchHardCut ==
    [][(/\ pc = "ct_loop"
        /\ max_chars > 0
        /\ chunks' # chunks
        /\ NoQualifyingMarker(text, start, max_chars))
          => /\ start' = Min(start + max_chars, Len(text))
             /\ chunks'[Len(chunks')] = Slice(text, start, start')
             /\ Len(chunks'[Len(chunks')]) = Min(max_chars, Len(text) - start)]_vars

\* a text without any marker, longer than max_chars, was cut into pieces of
\* max_chars characters
C16_Witness ==
    /\ pc = "ct_done"
    /\ max_chars > 0
    /\ Len(text) > max_chars
    /\ NoMarkerFrom(text, 0)
    /\ Len(chunks) >= 2
    /\ \A k \in 1..(Len(chunks) - 1) : Len(chunks[k]) = max_chars

\* every chunk cut so far and every chunk returned has between 1 and
\* max_chars characters, and the loop has advanced start by at least one
\* character per chunk without passing the end of the text, so that it ends
\* after at most len(text) iterations (the cap MaxIter is never met)
BoundedChunks ==
    /\ \A k \in 1..Len(chunks) : Len(chunks[k]) >= 1 /\ Len(chunks[k]) <= max_chars
    /\ pc = "ct_done" => \A k \in 1..Len(ct_result) : Len(ct_result[k]) <= max_chars
    /\ pc = "ct_loop" =>
          /\ Len(chunks) <= start
          /\ start <= Len(text)
          /\ start < Len(text) => Len(chunks) < MaxIter
    /\ pc = "ct_done" /\ Len(text) > max_chars => start = Len(text)

\* C18: for every text and every max_chars >= 1, chunk_text terminates, its
\* start offset strictly increases on every loop iteration, and every
\* returned chunk has at most max_chars characters.
C18_AdvancesAndBounded ==
    /\ [](max_chars >= 1 => BoundedChunks)
    /\ [][(pc = "ct_loop" /\ max_chars >= 1 /\ chunks' # chunks)
            => start' > start]_vars

\* a long text was split at a marker and then hard-cut: the call returned
\* after three iterations
C18_Witness ==
    /\ pc = "ct_done"
    /\ max_chars > MinDist
    /\ Len(chunks) = 3
    /\ start = Len(text)
    /\ Len(chunks[1]) < max_chars
    /\ Len(chunks[2]) = max_chars
    /\ Len(ct_result) = 3

-----------------------------------------------------------------------------
(* Claims about get_diff, checked under SpecGetDiff *)

DiffOps == {"diff three-dot", "diff two-dot", "diff HEAD~1..HEAD"}

Ran(op) == \E i \in 1..Len(cmds) : cmds[i].op = op

\* the diff commands run so far, in order
DiffsRun == SelectSeq(cmds, LAMBDA c : c.op \in DiffOps)

ThreeDotOrigin == Cmd("diff three-dot", <<OriginRef, head_sha>>)

\* C4: whatever git commands succeed or fail, get_diff does not let a failure
\* out: the process never exits inside it and it always gets to its return.
C4_NeverPropagates ==
    /\ pc # "exit"
    /\ exit_code = 0 - 1
    /\ pc = "gd_done" \/ ENABLED NextGetDiffOnly

\* the longest chain: both fetches, every diff and the last resort failed,
\* and get_diff returned the empty string
C4_Witness ==
    /\ pc = "gd_done"
    /\ diff = <<>>
    /\ Len(cmds) = 10
    /\ \A s \in {"fetch", "fetch_again", "diff2", "diff_last"} :
          Answer(s, 1).rc # 0
    /\ \A r \in Refs : git.diff3[r].rc # 0
    /\ exit_code = 0 - 1

\* C5 as stated: if origin/<base_ref> resolves, the three-dot diff against it
\* is the first diff attempted and its trimmed output is returned, without
\* the merge-base or the HEAD~1..HEAD diff being run.
C5_ThreeDotReturned ==
    (pc = "gd_done" /\ git.rev_parse[OriginRef].rc = 0) =>
        /\ Head(DiffsRun) = ThreeDotOrigin
        /\ diff = Strip(git.diff3[OriginRef].out)
        /\ ~Ran("merge-base")
        /\ ~Ran("diff HEAD~1..HEAD")

\* C5 as amended: if origin/<base_ref> resolves, the three-dot diff against it
\* is the first diff attempted; if that diff exits with status zero, its
\* trimmed output is returned and neither the merge-base nor the HEAD~1..HEAD
\* diff is run.
C5_ThreeDotReturnedIfOk ==
    git.rev_parse[OriginRef].rc = 0 =>
        /\ DiffsRun # <<>> => Head(DiffsRun) = ThreeDotOrigin
        /\ pc = "gd_done" => DiffsRun # <<>>
        /\ (pc = "gd_done" /\ git.diff3[OriginRef].rc = 0) =>
              /\ diff = Strip(git.diff3[OriginRef].out)
              /\ DiffsRun = <<ThreeDotOrigin>>
              /\ ~Ran("merge-base")

C5_Witness ==
    /\ pc = "gd_done"
    /\ git.rev_parse[OriginRef].rc = 0
    /\ git.diff3[OriginRef].rc = 0
    /\ DiffsRun = <<ThreeDotOrigin>>
    /\ diff = <<"o", " ", "x">>

\* C6 as stated: if neither candidate resolves and git merge-base succeeds
\* with non-empty output, the trimmed output of the two-dot diff from the
\* merge-base is returned.
C6_TwoDotReturned ==
    (/\ pc = "gd_done"
     /\ \A r \in Refs : git.rev_parse[r].rc # 0
     /\ git.merge_base.rc = 0
     /\ git.merge_base.out # <<>>) => diff = Strip(git.diff2.out)

\* C6 as amended: if neither candidate resolves, git merge-base succeeds with
\* output that is non-empty after trimming, and the two-dot diff from that
\* merge-base exits with status zero, then the trimmed output of that two-dot
\* diff is returned (and it was the only diff run).
C6_TwoDotReturnedIfOk ==
    (/\ pc = "gd_done"
     /\ \A r \in Refs : git.rev_parse[r].rc # 0
     /\ git.merge_base.rc = 0
     /\ Strip(git.merge_base.out) # <<>>
     /\ git.diff2.rc = 0) =>
        /\ diff = Strip(git.diff2.out)
        /\ DiffsRun = <<Cmd("diff two-dot", <<Strip(git.merge_base.out), head_sha>>)>>

C6_Witness ==
    /\ pc = "gd_done"
    /\ \A r \in Refs : git.rev_parse[r].rc # 0
    /\ git.merge_base.rc = 0
    /\ mb = <<"c", "0">>
    /\ Ran("diff two-dot")
    /\ diff = <<"m", " ", "x">>

\* the command fails or prints only whitespace
FailsOrBlank(res) == res.rc # 0 \/ ~NonBlank(res.out)

\* what the repository answers to a diff command of the log
ResultOf(c) ==
    CASE c.op = "diff three-dot" -> git.diff3[c.args[1]]
      [] c.op = "diff two-dot" -> git.diff2
      [] c.op = "diff HEAD~1..HEAD" -> git.diff_last

\* C13 as stated: get_diff returns the empty string only if no strategy
\* produces output: the three-dot diff against every resolvable candidate, the
\* two-dot diff from the merge-base and the HEAD~1..HEAD diff each fail or
\* yield only whitespace in this repository.
C13_EmptyOnlyIfNoOutput ==
    (pc = "gd_done" /\ diff = <<>>) =>
        /\ \A r \in Refs : git.rev_parse[r].rc = 0 => FailsOrBlank(git.diff3[r])
        /\ (git.merge_base.rc = 0 /\ Strip(git.merge_base.out) # <<>>)
              => FailsOrBlank(git.diff2)
        /\ FailsOrBlank(git.diff_last)

\* C13 as amended: get_diff returns the empty string only if the diff
\* commands it ran all failed, the HEAD~1..HEAD diff last, or all but the last
\* one failed and that one exited zero with only whitespace; no strategy is
\* tried after a diff that exited zero.
C13_EmptyOnlyIfLastRunBlank ==
    (pc = "gd_done" /\ diff = <<>>) =>
        LET n == Len(DiffsRun)
        IN  /\ n >= 1
            /\ \A k \in 1..(n - 1) : ResultOf(DiffsRun[k]).rc # 0
            /\ IF ResultOf(DiffsRun[n]).rc = 0
               THEN ~NonBlank(ResultOf(DiffsRun[n]).out)
               ELSE DiffsRun[n].op = "diff HEAD~1..HEAD"

\* the three-dot diff exited zero with whitespace and the empty string was
\* returned, in a repository whose HEAD~1..HEAD diff prints a change
C13_Witness ==
    /\ pc = "gd_done"
    /\ diff = <<>>
    /\ Len(DiffsRun) = 1
    /\ DiffsRun[1].op = "diff three-dot"
    /\ ResultOf(DiffsRun[1]) = Done(<<"\n">>)
    /\ git.diff_last.rc = 0 /\ NonBlank(git.diff_last.out)

\* the three-dot diff was run against the ref r
ThreeDotAgainst(r) ==
    \E i \in 1..Len(cmds) : cmds[i].op = "diff three-dot" /\ cmds[i].args[1] = r

Resolves(r) == git.rev_parse[r].rc = 0

\* C15 as stated: the three-dot diff is run only against the first candidate
\* (in the order origin/<base_ref>, <base_ref>) that resolves, and the
\* merge-base is attempted only if no candidate resolved.
C15_OnlyFirstResolvingCandidate ==
    /\ \A c \in 1..Len(Candidates) :
          ThreeDotAgainst(Candidates[c]) =>
              /\ Resolves(Candidates[c])
              /\ \A d \in 1..(c - 1) : ~Resolves(Candidates[d])
    /\ Ran("merge-base") => \A c \in 1..Len(Candidates) : ~Resolves(Candidates[c])

\* C15 as amended: the three-dot diff is run against a candidate only if it
\* resolves and every candidate before it did not resolve or had its
\* three-dot diff fail; the merge-base is attempted only if every candidate
\* did not resolve or had its three-dot diff fail; the two-dot diff is run only
\* from a merge-base that was found, and the HEAD~1..HEAD diff only after the
\* merge-base step failed, found nothing or had its two-dot diff fail.
C15_NextStepOnlyAfterFailure ==
    /\ \A c \in 1..Len(Candidates) :
          ThreeDotAgainst(Candidates[c]) =>
              /\ Resolves(Candidates[c])
              /\ \A d \in 1..(c - 1) :
                    ~Resolves(Candidates[d]) \/ git.diff3[Candidates[d]].rc # 0
    /\ Ran("merge-base") =>
          \A c \in 1..Len(Candidates) :
              ~Resolves(Candidates[c]) \/ git.diff3[Candidates[c]].rc # 0
    /\ Ran("diff two-dot") =>
          /\ Ran("merge-base")
          /\ git.merge_base.rc = 0
          /\ Strip(git.merge_base.out) # <<>>
    /\ Ran("diff HEAD~1..HEAD") =>
          /\ Ran("merge-base")
          /\ \/ git.merge_base.rc # 0
             \/ Strip(git.merge_base.out) = <<>>
             \/ git.diff2.rc # 0

\* both candidates resolved, both three-dot diffs were run and failed, and the
\* merge-base was attempted
C15_Witness ==
    /\ \A c \in 1..Len(Candidates) :
          Resolves(Candidates[c]) /\ ThreeDotAgainst(Candidates[c])
    /\ Ran("merge-base")
    /\ pc = "gd_done"

=============================================================================
